---- MODULE Spec2Model ----
(***************************************************************************)
(* Model of the INA219 driver (src/ina219.py): the calibration and gain    *)
(* resolution of configure(), the auto-gain loop that runs before every    *)
(* current/power/shunt read, and the device registers they act on.         *)
(*                                                                         *)
(* Floats are modelled as exact rationals [n, d] in lowest terms, None and *)
(* unset attributes as the empty tuple, a present value x as <<x>>.        *)
(***************************************************************************)
EXTENDS Integers, Sequences, FiniteSets, TLC

\* ----------------------------------------------------------------------
\* Bounds of the model
\* ----------------------------------------------------------------------

\* configure() is tried with every voltage_range selector in
\* -SelectorSpan .. SelectorSpan + 1 (the valid pair is 0, 1).
SelectorSpan == 1

\* ----------------------------------------------------------------------
\* Optional values and rationals
\* ----------------------------------------------------------------------

None == <<>>

Some(x) == <<x>>

IsNone(o) == Len(o) = 0

Val(o) == o[1]

\* LET x == v IN Op(x), with v evaluated once
Let(v, Op(_)) == CHOOSE r \in {Op(x) : x \in {v}} : TRUE

\* Euclid's algorithm, as a function so that its arguments are values
gcd[a \in Nat, b \in Nat] == IF b = 0 THEN a ELSE gcd[b, a % b]

GCD(a, b) == gcd[a, b]

Abs(x) == IF x < 0 THEN -x ELSE x

\* the rational n/d (d > 0) in lowest terms
R(n, d) ==
    LET g == GCD(Abs(n), d)
    IN  [n |-> n \div g, d |-> d \div g]

RInt(k) == [n |-> k, d |-> 1]

\* a * b, cancelling across the factors first so that the products stay small
RMul(a, b) ==
    LET g1 == GCD(Abs(a.n), b.d)
        g2 == GCD(Abs(b.n), a.d)
    IN  R((a.n \div g1) * (b.n \div g2), (a.d \div g2) * (b.d \div g1))

\* a / b for b > 0
RDiv(a, b) == RMul(a, [n |-> b.d, d |-> b.n])

\* a < b
RLess(a, b) ==
    LET g == GCD(a.d, b.d)
    IN  a.n * (b.d \div g) < b.n * (a.d \div g)

\* a > b
RGreater(a, b) == RLess(b, a)

\* math.trunc(a): towards zero
RTrunc(a) == IF a.n >= 0 THEN a.n \div a.d ELSE -((-a.n) \div a.d)

\* round(a, ndigits = 3) for a >= 0: nearest multiple of 1/1000, a tie going
\* to the even one
RRound3(a) ==
    LET s == RMul(a, RInt(1000))
        q == s.n \div s.d
        r == s.n % s.d
    IN  IF 2 * r < s.d THEN R(q, 1000)
        ELSE IF 2 * r > s.d THEN R(q + 1, 1000)
        ELSE IF q % 2 = 0 THEN R(q, 1000)
        ELSE R(q + 1, 1000)

\* ----------------------------------------------------------------------
\* Python integer and list operations
\* ----------------------------------------------------------------------

\* a | b on Python integers (two's complement of unbounded width)
bit_or[a \in Int, b \in Int] ==
    IF a = 0 THEN b
    ELSE IF b = 0 THEN a
    ELSE IF a = -1 \/ b = -1 THEN -1
    ELSE (IF a % 2 = 1 \/ b % 2 = 1 THEN 1 ELSE 0)
         + 2 * bit_or[(a - (a % 2)) \div 2, (b - (b % 2)) \div 2]

BitOr(a, b) == bit_or[a, b]

\* a & b on Python integers
bit_and[a \in Int, b \in Int] ==
    IF a = 0 \/ b = 0 THEN 0
    ELSE IF a = -1 THEN b
    ELSE IF b = -1 THEN a
    ELSE (IF a % 2 = 1 /\ b % 2 = 1 THEN 1 ELSE 0)
         + 2 * bit_and[(a - (a % 2)) \div 2, (b - (b % 2)) \div 2]

BitAnd(a, b) == bit_and[a, b]

\* a << k
Shl(a, k) == a * (2 ^ k)

\* a >> k for a >= 0
Shr(a, k) == a \div (2 ^ k)

\* list[i] raises IndexError unless -len <= i < len
PyIndexOK(list, i) == -Len(list) <= i /\ i < Len(list)

\* list[i], a negative i counting from the end
PyIndex(list, i) == IF i >= 0 THEN list[i + 1] ELSE list[Len(list) + i + 1]

\* struct.pack('>H', value) raises struct.error outside 0..0xFFFF
PackOK(value) == 0 <= value /\ value <= 65535

\* ----------------------------------------------------------------------
\* Constants of class INA219
\* ----------------------------------------------------------------------

RANGE_16V == 0
RANGE_32V == 1

GAIN_1_40MV == 0
GAIN_2_80MV == 1
GAIN_4_160MV == 2
GAIN_8_320MV == 3
GAIN_AUTO == -1

ADC_12BIT == 3

REG_CONFIG == 0
REG_SHUNTVOLTAGE == 1
REG_BUSVOLTAGE == 2
REG_POWER == 3
REG_CURRENT == 4
REG_CALIBRATION == 5

RST == 15
BRNG == 13
PG0 == 11
BADC1 == 7
SADC1 == 3

OVF == 1
CNVR == 2

BUS_RANGE == <<16, 32>>
GAIN_VOLTS == <<R(4, 100), R(8, 100), R(16, 100), R(32, 100)>>

CONT_SH_BUS == 7

BUS_MILLIVOLTS_LSB == 4

CALIBRATION_FACTOR == R(4096, 100000)
MAX_CALIBRATION_VALUE == 65534
CURRENT_LSB_FACTOR == 32800

\* ----------------------------------------------------------------------
\* Inputs the model draws from
\* ----------------------------------------------------------------------

\* (shunt_ohms, max_expected_amps) of the constructor: the pairs of the test
\* suite, pairs whose product is 0.1 V and exactly 0.32 V, and a pair whose
\* current lies between 0.04 V / 3 ohm and its rounding to 3 decimals
ConstructorChoices ==
    {<<R(1, 10), None>>,
     <<R(1, 10), Some(R(4, 10))>>,
     <<R(3, 1), Some(R(133, 10000))>>,
     <<R(1, 10), Some(R(3, 1))>>,
     <<R(1, 10), Some(R(4, 1))>>,
     <<R(1, 1), Some(R(1, 100))>>,
     <<R(1, 1), Some(R(1, 10))>>,
     <<R(1, 1), Some(R(32, 100))>>}

VoltageRangeChoices == (-SelectorSpan) .. (SelectorSpan + 1)

GainChoices == {GAIN_AUTO, GAIN_1_40MV, GAIN_2_80MV, GAIN_4_160MV, GAIN_8_320MV}

\* (bus_adc, shunt_adc): the default pair of configure()
AdcChoices == {<<ADC_12BIT, ADC_12BIT>>}

\* every code of the 4-bit bus and shunt ADC fields (ADC_9BIT .. ADC_128SAMP)
AdcCodes == 0 .. 15

\* raw bus voltage register words: 0x0FA0 with the overflow bit clear or set
BusRawChoices == {4000, 4001}

\* every 16-bit word the bus voltage register can hold
BusWords == 0 .. 65535

\* raw word of the current, power and shunt voltage registers
RawChoices == {100}

ReadCalls == {"current", "power", "shunt_voltage"}

\* ----------------------------------------------------------------------
\* State
\* ----------------------------------------------------------------------

VARIABLES
    ina,          \* the attributes of the INA219 instance
    regs,         \* the device's configuration and calibration registers
    pc,           \* "idle", or the position of the running read call
    call,         \* the public method called last, with its arguments
    io,           \* bus transfers and delays of that call, in order
    escalations,  \* gain escalations of that call
    outcome       \* how that call ended

vars == <<ina, regs, pc, call, io, escalations, outcome>>

\* a bus transfer or delay: <<"r", register, word read>>,
\* <<"w", register, word written>>, <<"sleep", 0, microseconds>>
ReadEvent(register, value) == <<"r", register, value>>

WriteEvent(register, value) == <<"w", register, value>>

SleepEvent(microseconds) == <<"sleep", 0, microseconds>>

Writes(events) == SelectSeq(events, LAMBDA e : e[1] = "w")

Running == [status |-> "running", error |-> "", msg |-> "", args |-> <<>>,
            device_limit_reached |-> FALSE, value |-> None]

NotCalled == [Running EXCEPT !.status = "none"]

Returned(value) == [Running EXCEPT !.status = "returned", !.value = value]

Raised(error, msg, args, device_max) ==
    [Running EXCEPT !.status = "raised", !.error = error, !.msg = msg,
                    !.args = args, !.device_limit_reached = device_max]

\* The frame of a running handler: the instance, the device registers, the
\* transfers so far and the exception raised, if any.
Frame(i, r, e) == [ina |-> i, regs |-> r, io |-> e, exc |-> None]

Raise(f, error, msg, args, device_max) ==
    [f EXCEPT !.exc = Some(Raised(error, msg, args, device_max))]

HasRaised(f) == ~IsNone(f.exc)

\* the statement Op after the statements that led to f: it runs unless an
\* exception was raised
Then(f, Op(_)) == Let(f, LAMBDA x : IF HasRaised(x) THEN x ELSE Op(x))

\* ----------------------------------------------------------------------
\* Register access
\* ----------------------------------------------------------------------

__write_register(f, register, value) ==
    IF ~PackOK(value)
    THEN Raise(f, "struct.error", "argument out of range", <<>>, FALSE)
    ELSE [f EXCEPT !.regs[register] = value,
                   !.io = Append(@, WriteEvent(register, value))]

_configuration_register(f, register_value) ==
    __write_register(f, REG_CONFIG, register_value)

_calibration_register(f, register_value) ==
    __write_register(f, REG_CALIBRATION, register_value)

\* the device returns the word last written to the configuration register
_read_configuration(f) ==
    [f EXCEPT !.io = Append(@, ReadEvent(REG_CONFIG, f.regs[REG_CONFIG]))]

\* ----------------------------------------------------------------------
\* Calibration
\* ----------------------------------------------------------------------

\* the minimum LSB taken from 0xFFFF, the largest 16-bit word
_calculate_min_current_lsb_ffff(shunt_ohms) ==
    RDiv(CALIBRATION_FACTOR, RMul(shunt_ohms, RInt(65535)))

_calculate_min_current_lsb(shunt_ohms) ==
    RDiv(CALIBRATION_FACTOR, RMul(shunt_ohms, RInt(MAX_CALIBRATION_VALUE)))

__validate_voltage_range(voltage_range) == ~(voltage_range > Len(BUS_RANGE) - 1)

\* the gain levels whose full-scale shunt voltage exceeds shunt_v
GainCandidates(shunt_v) ==
    {g \in 1 .. Len(GAIN_VOLTS) : RGreater(GAIN_VOLTS[g], shunt_v)}

\* [error, args, gain]: "" and the index of the smallest candidate, or the
\* message and arguments of the ValueError raised
_determine_gain(max_expected_amps, shunt_ohms) ==
    LET shunt_v == RMul(max_expected_amps, shunt_ohms)
        cands == GainCandidates(shunt_v)
    IN  IF RGreater(shunt_v, GAIN_VOLTS[4])
        THEN [error |-> "RNG_ERR_MSG", args |-> <<max_expected_amps>>,
              gain |-> None]
        ELSE IF cands = {}
        THEN [error |-> "min() arg is an empty sequence", args |-> <<>>,
              gain |-> None]
        ELSE [error |-> "", args |-> <<>>,
              gain |-> Some((CHOOSE g \in cands :
                               \A h \in cands :
                                  ~RLess(GAIN_VOLTS[h], GAIN_VOLTS[g])) - 1)]

\* the LSB chosen without validating the expected current
_determine_current_lsb_unchecked(max_expected_amps, max_possible_amps, min_lsb) ==
    LET candidate ==
            IF ~IsNone(max_expected_amps)
               /\ RLess(Val(max_expected_amps), max_possible_amps)
            THEN RDiv(Val(max_expected_amps), RInt(CURRENT_LSB_FACTOR))
            ELSE RDiv(max_possible_amps, RInt(CURRENT_LSB_FACTOR))
    IN  [error |-> "",
         lsb |-> Some(IF RLess(candidate, min_lsb) THEN min_lsb
                      ELSE candidate)]

\* the LSB chosen without raising it to the minimum of the device
_determine_current_lsb_unclamped(max_expected_amps, max_possible_amps, min_lsb) ==
    IF ~IsNone(max_expected_amps)
       /\ RGreater(Val(max_expected_amps), RRound3(max_possible_amps))
    THEN [error |-> "AMP_ERR_MSG", lsb |-> None]
    ELSE [error |-> "",
          lsb |-> Some(IF ~IsNone(max_expected_amps)
                          /\ RLess(Val(max_expected_amps), max_possible_amps)
                       THEN RDiv(Val(max_expected_amps),
                                 RInt(CURRENT_LSB_FACTOR))
                       ELSE RDiv(max_possible_amps,
                                 RInt(CURRENT_LSB_FACTOR)))]

\* the LSB taken from 32767, the largest word of the 15-bit register
_determine_current_lsb_32767(max_expected_amps, max_possible_amps, min_lsb) ==
    LET candidate ==
            IF ~IsNone(max_expected_amps)
               /\ RLess(Val(max_expected_amps), max_possible_amps)
            THEN RDiv(Val(max_expected_amps), RInt(32767))
            ELSE RDiv(max_possible_amps, RInt(32767))
    IN  IF ~IsNone(max_expected_amps)
           /\ RGreater(Val(max_expected_amps), RRound3(max_possible_amps))
        THEN [error |-> "AMP_ERR_MSG", lsb |-> None]
        ELSE [error |-> "",
              lsb |-> Some(IF RLess(candidate, min_lsb) THEN min_lsb
                           ELSE candidate)]

\* [error, lsb]: "" and the LSB, or the ValueError raised
_determine_current_lsb(max_expected_amps, max_possible_amps, min_lsb) ==
    LET candidate ==
            IF ~IsNone(max_expected_amps)
               /\ RLess(Val(max_expected_amps), max_possible_amps)
            THEN RDiv(Val(max_expected_amps), RInt(CURRENT_LSB_FACTOR))
            ELSE RDiv(max_possible_amps, RInt(CURRENT_LSB_FACTOR))
    IN  IF ~IsNone(max_expected_amps)
           /\ RGreater(Val(max_expected_amps), RRound3(max_possible_amps))
        THEN [error |-> "AMP_ERR_MSG", lsb |-> None]
        ELSE [error |-> "",
              lsb |-> Some(IF RLess(candidate, min_lsb) THEN min_lsb
                           ELSE candidate)]

\* the calibration word rounded up instead of truncated
CalibrationValue_ceil(current_lsb, shunt_ohms) ==
    RTrunc(RDiv(CALIBRATION_FACTOR, RMul(current_lsb, shunt_ohms))) + 1

\* the word _calibrate writes for a current LSB
CalibrationValue(current_lsb, shunt_ohms) ==
    RTrunc(RDiv(CALIBRATION_FACTOR, RMul(current_lsb, shunt_ohms)))

\* bus_volts_max is only logged and is left out
_calibrate(f, shunt_volts_max, max_expected_amps) ==
    Let(RDiv(shunt_volts_max, f.ina.shunt_ohms),
        LAMBDA max_possible_amps :
          Let(_determine_current_lsb(max_expected_amps, max_possible_amps,
                                     f.ina.min_device_current_lsb),
              LAMBDA d :
                IF d.error # ""
                THEN Raise(f, "ValueError", d.error,
                           <<Val(max_expected_amps), max_possible_amps>>,
                           FALSE)
                ELSE _calibration_register(
                         [f EXCEPT !.ina.current_lsb = d.lsb,
                                   !.ina.power_lsb =
                                       Some(RMul(Val(d.lsb), RInt(20)))],
                         CalibrationValue(Val(d.lsb), f.ina.shunt_ohms))))

\* the bus ADC code shifted one bit too far
ConfigurationWord_badc8(voltage_range, gain, bus_adc, shunt_adc) ==
    BitOr(BitOr(BitOr(BitOr(Shl(voltage_range, BRNG), Shl(gain, PG0)),
                      Shl(bus_adc, 8)),
                Shl(shunt_adc, SADC1)),
          CONT_SH_BUS)

ConfigurationWord(voltage_range, gain, bus_adc, shunt_adc) ==
    BitOr(BitOr(BitOr(BitOr(Shl(voltage_range, BRNG), Shl(gain, PG0)),
                      Shl(bus_adc, BADC1)),
                Shl(shunt_adc, SADC1)),
          CONT_SH_BUS)

_configure(f, voltage_range, gain, bus_adc, shunt_adc) ==
    _configuration_register(
        f, ConfigurationWord(voltage_range, gain, bus_adc, shunt_adc))

\* ----------------------------------------------------------------------
\* configure()
\* ----------------------------------------------------------------------

\* lines 157-168: the gain recorded for the requested one
ResolveGain(f, gain) ==
    IF ~IsNone(f.ina.max_expected_amps)
    THEN IF gain = GAIN_AUTO
         THEN Let(_determine_gain(Val(f.ina.max_expected_amps),
                                  f.ina.shunt_ohms),
                  LAMBDA d :
                    IF d.error # ""
                    THEN Raise([f EXCEPT !.ina.auto_gain_enabled = TRUE],
                               "ValueError", d.error, d.args, FALSE)
                    ELSE [f EXCEPT !.ina.auto_gain_enabled = TRUE,
                                   !.ina.gain = d.gain])
         ELSE [f EXCEPT !.ina.gain = Some(gain)]
    ELSE IF gain # GAIN_AUTO
         THEN [f EXCEPT !.ina.gain = Some(gain)]
         ELSE [f EXCEPT !.ina.auto_gain_enabled = TRUE,
                        !.ina.gain = Some(GAIN_1_40MV)]

\* lines 170-177: the arguments of the two log calls index both tables
LogConfiguration(f, voltage_range) ==
    IF PyIndexOK(GAIN_VOLTS, Val(f.ina.gain))
       /\ PyIndexOK(BUS_RANGE, voltage_range)
    THEN f
    ELSE Raise(f, "IndexError", "list index out of range", <<>>, FALSE)

configure(f, voltage_range, gain, bus_adc, shunt_adc) ==
    IF ~__validate_voltage_range(voltage_range)
    THEN Raise(f, "ValueError", "VOLT_ERR_MSG", <<>>, FALSE)
    ELSE
      Then(Then(Then(Then(
        [f EXCEPT !.ina.voltage_range = Some(voltage_range)],
        LAMBDA f1 : ResolveGain(f1, gain)),
        LAMBDA f2 : LogConfiguration(f2, voltage_range)),
        LAMBDA f3 : _calibrate(f3, PyIndex(GAIN_VOLTS, Val(f3.ina.gain)),
                               f3.ina.max_expected_amps)),
        LAMBDA f4 : _configure(f4, voltage_range, Val(f4.ina.gain),
                               bus_adc, shunt_adc))

Called(name, args) == [name |-> name, args |-> args]

\* what a handler that ran to its end leaves behind
Finish(f, called, value) ==
    /\ ina' = f.ina
    /\ regs' = f.regs
    /\ io' = f.io
    /\ call' = called
    /\ outcome' = IF HasRaised(f) THEN Val(f.exc) ELSE Returned(value)
    /\ pc' = "idle"

Configure(voltage_range, gain, bus_adc, shunt_adc) ==
    /\ pc = "idle"
    /\ \E f \in {configure(Frame(ina, regs, <<>>), voltage_range, gain,
                           bus_adc, shunt_adc)} :
          Finish(f, Called("configure",
                           <<voltage_range, gain, bus_adc, shunt_adc>>),
                 None)
    /\ escalations' = 0

\* configure() as the first call on a newly constructed instance
ConfigureNew(voltage_range, gain, bus_adc, shunt_adc) ==
    /\ call.name = "__init__"
    /\ Configure(voltage_range, gain, bus_adc, shunt_adc)

\* ----------------------------------------------------------------------
\* current(), power(), shunt_voltage() and the auto-gain loop
\* ----------------------------------------------------------------------

\* the gain field shifted by PG1 instead of PG0
GainField_pg1(configuration) == Shr(BitAnd(configuration, 6144), 12)

\* the gain field of a configuration word: (word & 0x1800) >> PG0
GainField(configuration) == Shr(BitAnd(configuration, 6144), PG0)

\* the frame after the read, and the gain decoded from the word read
_read_gain(f) ==
    [frame |-> _read_configuration(f), gain |-> GainField(f.regs[REG_CONFIG])]

\* the whole configuration word built again, for continuous mode
_configure_gain_rewrites(f, gain) ==
    Then(_configuration_register(
             _read_configuration(f),
             ConfigurationWord(Shr(BitAnd(f.regs[REG_CONFIG], 8192), BRNG),
                               gain, ADC_12BIT, ADC_12BIT)),
         LAMBDA f1 : [f1 EXCEPT !.ina.gain = Some(gain)])

\* the new gain written to the device but not recorded in the driver
_configure_gain_unrecorded(f, gain) ==
    _configuration_register(
        _read_configuration(f),
        BitOr(BitAnd(f.regs[REG_CONFIG], 59391), Shl(gain, PG0)))

\* the gain field is cleared with the mask 0xE7FF
_configure_gain(f, gain) ==
    Then(_configuration_register(
             _read_configuration(f),
             BitOr(BitAnd(f.regs[REG_CONFIG], 59391), Shl(gain, PG0))),
         LAMBDA f1 : [f1 EXCEPT !.ina.gain = Some(gain)])

\* line 270 reads self._voltage_range and indexes the bus range table
BusRangeOf(f) ==
    IF IsNone(f.ina.voltage_range)
    THEN Raise(f, "AttributeError", "_voltage_range", <<>>, FALSE)
    ELSE IF ~PyIndexOK(BUS_RANGE, Val(f.ina.voltage_range))
    THEN Raise(f, "IndexError", "list index out of range", <<>>, FALSE)
    ELSE f

\* the escalation calibrated with the expected current of the instance
_increase_gain_expected_amps(f) ==
    Let(_read_gain(f),
        LAMBDA rg :
          IF rg.gain < Len(GAIN_VOLTS) - 1
          THEN Then(Then(Then(
                 BusRangeOf(rg.frame),
                 LAMBDA f1 : _calibrate(f1, GAIN_VOLTS[(rg.gain + 1) + 1],
                                        f1.ina.max_expected_amps)),
                 LAMBDA f2 : _configure_gain(f2, rg.gain + 1)),
                 LAMBDA f3 : [f3 EXCEPT !.io = Append(@, SleepEvent(1000))])
          ELSE Raise(rg.frame, "DeviceRangeError", "DEV_RNG_ERR",
                     <<GAIN_VOLTS[rg.gain + 1]>>, TRUE))

\* the escalation wrapping from the highest gain level to the lowest
_increase_gain_wraps(f) ==
    Let(_read_gain(f),
        LAMBDA rg :
          Then(Then(Then(
            BusRangeOf(rg.frame),
            LAMBDA f1 : _calibrate(f1, GAIN_VOLTS[((rg.gain + 1) % 4) + 1],
                                   None)),
            LAMBDA f2 : _configure_gain(f2, (rg.gain + 1) % 4)),
            LAMBDA f3 : [f3 EXCEPT !.io = Append(@, SleepEvent(1000))]))

\* the escalation calibrating for the expected current before it gives up
_increase_gain_recalibrates(f) ==
    Let(_read_gain(f),
        LAMBDA rg :
          IF rg.gain < Len(GAIN_VOLTS) - 1
          THEN Then(Then(Then(
                 BusRangeOf(rg.frame),
                 LAMBDA f1 : _calibrate(f1, GAIN_VOLTS[(rg.gain + 1) + 1],
                                        None)),
                 LAMBDA f2 : _configure_gain(f2, rg.gain + 1)),
                 LAMBDA f3 : [f3 EXCEPT !.io = Append(@, SleepEvent(1000))])
          ELSE Then(_calibrate(rg.frame, GAIN_VOLTS[rg.gain + 1],
                               f.ina.max_expected_amps),
                    LAMBDA f1 : Raise(f1, "DeviceRangeError", "DEV_RNG_ERR",
                                      <<GAIN_VOLTS[rg.gain + 1]>>, TRUE)))

\* the escalation writing the configuration before the calibration
_increase_gain_configures_first(f) ==
    Let(_read_gain(f),
        LAMBDA rg :
          IF rg.gain < Len(GAIN_VOLTS) - 1
          THEN Then(Then(Then(
                 BusRangeOf(rg.frame),
                 LAMBDA f1 : _configure_gain(f1, rg.gain + 1)),
                 LAMBDA f2 : _calibrate(f2, GAIN_VOLTS[(rg.gain + 1) + 1],
                                        None)),
                 LAMBDA f3 : [f3 EXCEPT !.io = Append(@, SleepEvent(1000))])
          ELSE Raise(rg.frame, "DeviceRangeError", "DEV_RNG_ERR",
                     <<GAIN_VOLTS[rg.gain + 1]>>, TRUE))

_increase_gain(f) ==
    Let(_read_gain(f),
        LAMBDA rg :
          IF rg.gain < Len(GAIN_VOLTS) - 1
          THEN Then(Then(Then(
                 BusRangeOf(rg.frame),
                 LAMBDA f1 : _calibrate(f1, GAIN_VOLTS[(rg.gain + 1) + 1],
                                        None)),
                 LAMBDA f2 : _configure_gain(f2, rg.gain + 1)),
                 LAMBDA f3 : [f3 EXCEPT !.io = Append(@, SleepEvent(1000))])
          ELSE Raise(rg.frame, "DeviceRangeError", "DEV_RNG_ERR",
                     <<GAIN_VOLTS[rg.gain + 1]>>, TRUE))

\* _has_current_overflow() on the word read from the bus voltage register
HasOverflow(raw_bus) == BitAnd(raw_bus, OVF) = 1

\* Python truth of self._gain: None and 0 are false
Truthy(gain) == ~IsNone(gain) /\ Val(gain) # 0

\* One pass of _handle_current_overflow: one overflow check and what follows
\* it. [frame, again]: again is TRUE when the gain was raised and the loop
\* is back at its overflow check.
_handle_current_overflow(f, raw_bus) ==
    Let([f EXCEPT !.io = Append(@, ReadEvent(REG_BUSVOLTAGE, raw_bus))],
        LAMBDA f1 :
          IF f.ina.auto_gain_enabled
          THEN IF HasOverflow(raw_bus)
               THEN Let(_increase_gain(f1),
                        LAMBDA f2 : [frame |-> f2, again |-> ~HasRaised(f2)])
               ELSE [frame |-> f1, again |-> FALSE]
          ELSE IF HasOverflow(raw_bus)
               THEN [frame |->
                       Raise(f1, "DeviceRangeError", "DEV_RNG_ERR",
                             <<IF Truthy(f.ina.gain)
                               THEN GAIN_VOLTS[Val(f.ina.gain) + 1]
                               ELSE RInt(0)>>, FALSE),
                     again |-> FALSE]
               ELSE [frame |-> f1, again |-> FALSE])

MeasurementRegister(name) ==
    CASE name = "current" -> REG_CURRENT
      [] name = "power" -> REG_POWER
      [] name = "shunt_voltage" -> REG_SHUNTVOLTAGE

\* the attribute the result is scaled by; shunt_voltage uses a constant
LsbOf(f, name) ==
    CASE name = "current" -> f.ina.current_lsb
      [] name = "power" -> f.ina.power_lsb
      [] name = "shunt_voltage" -> Some(R(1, 100000))

\* the measurement register read before the overflow handling
Measure_before_check(f, name, raw) ==
    Let([f EXCEPT !.io =
             <<ReadEvent(MeasurementRegister(name), raw)>> \o @],
        LAMBDA f1 :
          IF IsNone(LsbOf(f, name))
          THEN Raise(f1, "AttributeError", "_" \o name \o "_lsb", <<>>,
                     FALSE)
          ELSE f1)

\* the register read after the overflow handling returned; the scaling fails
\* when the attribute was never set
Measure(f, name, raw) ==
    Let([f EXCEPT !.io =
             Append(@, ReadEvent(MeasurementRegister(name), raw))],
        LAMBDA f1 :
          IF IsNone(LsbOf(f, name))
          THEN Raise(f1, "AttributeError", "_" \o name \o "_lsb", <<>>,
                     FALSE)
          ELSE f1)

\* raw * LSB * 1000
MeasuredValue(f, name, raw) ==
    IF IsNone(LsbOf(f, name)) THEN None
    ELSE Some(RMul(RMul(RInt(raw), Val(LsbOf(f, name))), RInt(1000)))

\* a read call from the overflow check onwards
ReadFrom(f, name, raw_bus, raw) ==
    \E h \in {_handle_current_overflow(f, raw_bus)} :
       IF h.again
       THEN /\ ina' = h.frame.ina
            /\ regs' = h.frame.regs
            /\ io' = h.frame.io
            /\ call' = Called(name, <<>>)
            /\ outcome' = Running
            /\ pc' = "_handle_current_overflow"
            /\ escalations' = (IF pc = "idle" THEN 0 ELSE escalations) + 1
       ELSE /\ IF HasRaised(h.frame)
               THEN Finish(h.frame, Called(name, <<>>), None)
               ELSE \E m \in {Measure(h.frame, name, raw)} :
                       Finish(m, Called(name, <<>>),
                              MeasuredValue(h.frame, name, raw))
            /\ escalations' = IF pc = "idle" THEN 0 ELSE escalations

\* current(), power() or shunt_voltage() is called
Read(name, raw_bus, raw) ==
    /\ pc = "idle"
    /\ ReadFrom(Frame(ina, regs, <<>>), name, raw_bus, raw)

\* the running call is back at the overflow check after raising the gain
Recheck(raw_bus, raw) ==
    /\ pc = "_handle_current_overflow"
    /\ ReadFrom(Frame(ina, regs, io), call.name, raw_bus, raw)

\* ----------------------------------------------------------------------
\* voltage(), current_overflow(), is_conversion_ready()
\* ----------------------------------------------------------------------

_read_voltage_register(f, raw_bus) ==
    [f EXCEPT !.io = Append(@, ReadEvent(REG_BUSVOLTAGE, raw_bus))]

_voltage_register(raw_bus) == Shr(raw_bus, 3)

\* the overflow handling of current() run before the voltage is read
voltage_checks_overflow(f, raw_bus) ==
    [frame |-> _read_voltage_register(
                   _handle_current_overflow(f, raw_bus).frame, raw_bus),
     value |-> Some(RDiv(RMul(RInt(_voltage_register(raw_bus)),
                              RInt(BUS_MILLIVOLTS_LSB)),
                         RInt(1000)))]

\* [frame, value]: float(value) * 4 / 1000
voltage(f, raw_bus) ==
    [frame |-> _read_voltage_register(f, raw_bus),
     value |-> Some(RDiv(RMul(RInt(_voltage_register(raw_bus)),
                              RInt(BUS_MILLIVOLTS_LSB)),
                         RInt(1000)))]

current_overflow(f, raw_bus) ==
    [frame |-> _read_voltage_register(f, raw_bus),
     value |-> Some(HasOverflow(raw_bus))]

is_conversion_ready(f, raw_bus) ==
    [frame |-> _read_voltage_register(f, raw_bus),
     value |-> Some(BitAnd(raw_bus, CNVR) = CNVR)]

Voltage(raw_bus) ==
    /\ pc = "idle"
    /\ \E v \in {voltage(Frame(ina, regs, <<>>), raw_bus)} :
          Finish(v.frame, Called("voltage", <<>>), v.value)
    /\ escalations' = 0

CurrentOverflow(raw_bus) ==
    /\ pc = "idle"
    /\ \E v \in {current_overflow(Frame(ina, regs, <<>>), raw_bus)} :
          Finish(v.frame, Called("current_overflow", <<>>), v.value)
    /\ escalations' = 0

IsConversionReady(raw_bus) ==
    /\ pc = "idle"
    /\ \E v \in {is_conversion_ready(Frame(ina, regs, <<>>), raw_bus)} :
          Finish(v.frame, Called("is_conversion_ready", <<>>), v.value)
    /\ escalations' = 0

\* ----------------------------------------------------------------------
\* sleep(), wake(), reset()
\* ----------------------------------------------------------------------

\* the low four bits cleared, with the mask 0xFFF0
sleep_fff0(f) ==
    _configuration_register(_read_configuration(f),
                            BitAnd(f.regs[REG_CONFIG], 65520))

\* the mode bits are cleared with the mask 0xFFF8
sleep(f) ==
    _configuration_register(_read_configuration(f),
                            BitAnd(f.regs[REG_CONFIG], 65528))

\* the delay taken before the write
wake_delay_first(f) ==
    _configuration_register(
        [_read_configuration(f) EXCEPT !.io = Append(@, SleepEvent(40))],
        BitOr(f.regs[REG_CONFIG], 7))

wake(f) ==
    Then(_configuration_register(_read_configuration(f),
                                 BitOr(f.regs[REG_CONFIG], 7)),
         LAMBDA f1 : [f1 EXCEPT !.io = Append(@, SleepEvent(40))])

\* the reset bit set in the word read from the device
reset_rmw(f) ==
    _configuration_register(_read_configuration(f),
                            BitOr(f.regs[REG_CONFIG], Shl(1, RST)))

reset(f) == _configuration_register(f, Shl(1, RST))

Sleep ==
    /\ pc = "idle"
    /\ Finish(sleep(Frame(ina, regs, <<>>)), Called("sleep", <<>>), None)
    /\ escalations' = 0

Wake ==
    /\ pc = "idle"
    /\ Finish(wake(Frame(ina, regs, <<>>)), Called("wake", <<>>), None)
    /\ escalations' = 0

Reset ==
    /\ pc = "idle"
    /\ Finish(reset(Frame(ina, regs, <<>>)), Called("reset", <<>>), None)
    /\ escalations' = 0

\* ----------------------------------------------------------------------
\* Construction
\* ----------------------------------------------------------------------

\* INA219(i2c_device, shunt_ohms, max_expected_amps)
NewINA219(shunt_ohms, max_expected_amps) ==
    [shunt_ohms |-> shunt_ohms,
     max_expected_amps |-> max_expected_amps,
     min_device_current_lsb |-> _calculate_min_current_lsb(shunt_ohms),
     gain |-> None,
     auto_gain_enabled |-> FALSE,
     voltage_range |-> None,
     current_lsb |-> None,
     power_lsb |-> None]

\* The device is in an unknown configuration when the driver is constructed:
\* the lowest or the highest gain may be programmed.
Init ==
    /\ \E c \in ConstructorChoices : ina = NewINA219(c[1], c[2])
    /\ \E g \in {GAIN_1_40MV, GAIN_8_320MV} :
          regs = (REG_CONFIG :> Shl(g, PG0)) @@ (REG_CALIBRATION :> 0)
    /\ pc = "idle"
    /\ call = Called("__init__", <<>>)
    /\ io = <<>>
    /\ escalations = 0
    /\ outcome = NotCalled

Next ==
    \/ \E voltage_range \in VoltageRangeChoices, gain \in GainChoices,
          adc \in AdcChoices :
          Configure(voltage_range, gain, adc[1], adc[2])
    \/ \E name \in ReadCalls, raw_bus \in BusRawChoices, raw \in RawChoices :
          Read(name, raw_bus, raw)
    \/ \E raw_bus \in BusRawChoices, raw \in RawChoices :
          Recheck(raw_bus, raw)
    \/ Sleep
    \/ Wake
    \/ Reset

Spec == Init /\ [][Next]_vars

\* one configure() on a new instance, with every ADC code
EncodeNext ==
    \E voltage_range \in {RANGE_16V, RANGE_32V}, gain \in GainChoices,
       bus_adc \in AdcCodes, shunt_adc \in AdcCodes :
       ConfigureNew(voltage_range, gain, bus_adc, shunt_adc)

EncodeSpec == Init /\ [][EncodeNext]_vars

\* the instance of the read tests, INA219(0.1, 0.4)
DecodeInit ==
    /\ Init
    /\ ina = NewINA219(R(1, 10), Some(R(4, 10)))

\* the instance as constructed or after configure() with its default
\* arguments, which enables auto-gain; then one call that decodes a word of
\* the bus voltage register
DecodeNext ==
    \/ ConfigureNew(RANGE_32V, GAIN_AUTO, ADC_12BIT, ADC_12BIT)
    \/ /\ call.name \in {"__init__", "configure"}
       /\ \E raw_bus \in BusWords : Voltage(raw_bus)
    \/ /\ call.name \in {"__init__", "configure"}
       /\ \E raw_bus \in BusWords : CurrentOverflow(raw_bus)
    \/ /\ call.name \in {"__init__", "configure"}
       /\ \E raw_bus \in BusWords : IsConversionReady(raw_bus)

DecodeSpec == DecodeInit /\ [][DecodeNext]_vars

\* a call that returned or raised DeviceRangeError, or is still running
EndsAsExpected ==
    outcome'.status = "raised" => outcome'.error = "DeviceRangeError"

\* use of the driver without reset(): configure() calls that succeed, reads
\* that return or raise DeviceRangeError, sleep() and wake()
AgreeNext ==
    \/ \E voltage_range \in VoltageRangeChoices, gain \in GainChoices,
          adc \in AdcChoices :
          /\ Configure(voltage_range, gain, adc[1], adc[2])
          /\ outcome'.status = "returned"
    \/ \E name \in ReadCalls, raw_bus \in BusRawChoices, raw \in RawChoices :
          Read(name, raw_bus, raw) /\ EndsAsExpected
    \/ \E raw_bus \in BusRawChoices, raw \in RawChoices :
          Recheck(raw_bus, raw) /\ EndsAsExpected
    \/ Sleep
    \/ Wake

AgreeSpec == Init /\ [][AgreeNext]_vars

\* ----------------------------------------------------------------------
\* Properties
\* ----------------------------------------------------------------------

BusReads(events) ==
    SelectSeq(events, LAMBDA e : e[1] = "r" /\ e[2] = REG_BUSVOLTAGE)

ConfigReads(events) ==
    SelectSeq(events, LAMBDA e : e[1] = "r" /\ e[2] = REG_CONFIG)

CalibrationWrites(events) ==
    SelectSeq(events, LAMBDA e : e[1] = "w" /\ e[2] = REG_CALIBRATION)

\* a read call has ended
ReadEnded == pc = "idle" /\ call.name \in ReadCalls

\* a configure() call has ended
ConfigureEnded == pc = "idle" /\ call.name = "configure"

\* the overflow bit of the last overflow check of the call
LastOverflow == HasOverflow(BusReads(io)[Len(BusReads(io))][3])

ValidRanges == {RANGE_16V, RANGE_32V}

\* the driver has been configured and the device holds what it recorded
Configured ==
    /\ ~IsNone(ina.gain)
    /\ ~IsNone(ina.voltage_range)
    /\ Val(ina.voltage_range) \in ValidRanges
    /\ ~IsNone(ina.current_lsb)
    /\ GainField(regs[REG_CONFIG]) = Val(ina.gain)
    /\ regs[REG_CALIBRATION] =
          CalibrationValue(Val(ina.current_lsb), ina.shunt_ohms)

\* C1: with auto-gain disabled, a read that finds the overflow bit set raises
\* DeviceRangeError with device_limit_reached = false and gain_volts equal to
\* the full-scale shunt voltage of the configured gain level, for each of the
\* four levels, and writes no register.
C1_OverflowErrorNamesConfiguredGain ==
    (/\ ReadEnded
     /\ ~ina.auto_gain_enabled
     /\ Configured
     /\ LastOverflow)
    => /\ outcome = Raised("DeviceRangeError", "DEV_RNG_ERR",
                           <<GAIN_VOLTS[Val(ina.gain) + 1]>>, FALSE)
       /\ Writes(io) = <<>>

\* C2: a successful configure() with an explicit gain level records that
\* level and leaves auto-gain disabled, whatever configure() calls came
\* before it.
C2_ExplicitGainDisablesAutoGain ==
    (/\ ConfigureEnded
     /\ call.args[2] # GAIN_AUTO
     /\ outcome.status = "returned")
    => /\ ina.gain = Some(call.args[2])
       /\ ~ina.auto_gain_enabled

\* the current LSB of a gain level when no expected current constrains it
UnconstrainedLsb(gain) ==
    LET lsb == RDiv(RDiv(GAIN_VOLTS[gain + 1], ina.shunt_ohms),
                    RInt(CURRENT_LSB_FACTOR))
    IN  IF RLess(lsb, ina.min_device_current_lsb)
        THEN ina.min_device_current_lsb ELSE lsb

\* C3: with auto-gain enabled, a read that finds the overflow bit set and,
\* after raising the gain, finds it clear returns a value: each escalation
\* advanced the gain field read from the device by one level, current_lsb is
\* the LSB of the new level with no expected-amps constraint, and the
\* configuration register and the driver hold the new level.
C3_EscalationThenClearReturns ==
    (ReadEnded /\ escalations >= 1 /\ ~LastOverflow)
    => /\ outcome.status = "returned"
       /\ ina.auto_gain_enabled
       /\ GainField(ConfigReads(io)[1][3]) < GAIN_8_320MV
       /\ GainField(regs[REG_CONFIG]) =
             GainField(ConfigReads(io)[1][3]) + escalations
       /\ ina.gain = Some(GainField(regs[REG_CONFIG]))
       /\ ina.current_lsb = Some(UnconstrainedLsb(Val(ina.gain)))

C3_Witness ==
    /\ ReadEnded
    /\ escalations = 1
    /\ ~LastOverflow
    /\ outcome.status = "returned"
    /\ ~IsNone(ina.max_expected_amps)

\* C4: with auto-gain enabled, a read step that finds the overflow bit set
\* while the device's gain is 320mV raises DeviceRangeError with
\* device_limit_reached = true and gain_volts = 0.32 and ends the call; the
\* step changes no register and no attribute, and after the overflow check
\* it only reads the configuration register.
C4_OverflowAtHighestGainIsTerminal ==
    [][(/\ ina.auto_gain_enabled
        /\ GainField(regs[REG_CONFIG]) = GAIN_8_320MV
        /\ call'.name \in ReadCalls
        /\ HasOverflow(BusReads(io')[Len(BusReads(io'))][3]))
       => /\ outcome' = Raised("DeviceRangeError", "DEV_RNG_ERR",
                               <<R(32, 100)>>, TRUE)
          /\ pc' = "idle"
          /\ regs' = regs
          /\ ina' = ina
          /\ io' = (IF pc = "idle" THEN <<>> ELSE io)
                   \o <<BusReads(io')[Len(BusReads(io'))],
                        ReadEvent(REG_CONFIG, regs[REG_CONFIG])>>]_vars

C4_Witness ==
    /\ ReadEnded
    /\ ina.auto_gain_enabled
    /\ escalations = 0
    /\ outcome = Raised("DeviceRangeError", "DEV_RNG_ERR", <<R(32, 100)>>, TRUE)

\* C5: every read call ends, returning or raising, after at most 3 gain
\* escalations, whatever the overflow bit is on each check.
C5_ReadTerminatesWithinThreeEscalations ==
    /\ [][escalations' <= 3]_vars
    /\ [](pc # "idle" => <>(pc = "idle"))

C5_Witness ==
    /\ ReadEnded
    /\ escalations = 3
    /\ outcome.status = "raised"
    /\ outcome.device_limit_reached

\* C6: a configure() call that fails has written no register.
C6_FailedConfigureWritesNothing ==
    (ConfigureEnded /\ outcome.status = "raised") => Writes(io) = <<>>

\* C7: configure() with a voltage_range selector other than RANGE_16V and
\* RANGE_32V fails with the 'Invalid voltage range' error, for selectors
\* above and below the valid pair.
C7_InvalidVoltageRangeRejected ==
    (ConfigureEnded /\ call.args[1] \notin ValidRanges)
    => outcome = Raised("ValueError", "VOLT_ERR_MSG", <<>>, FALSE)

\* the gain levels whose full-scale shunt voltage exceeds the expected shunt
\* voltage of the instance
LevelsAbove ==
    {g \in 0 .. 3 :
        RLess(RMul(Val(ina.max_expected_amps), ina.shunt_ohms),
              GAIN_VOLTS[g + 1])}

\* C8: configure() with GAIN_AUTO enables auto-gain; with max_expected_amps
\* it records the smallest gain level whose full-scale shunt voltage exceeds
\* max_expected_amps * shunt_ohms, and fails with the out-of-range error
\* naming the expected amps when no level does; without max_expected_amps it
\* records 40mV.
C8_AutoGainResolution ==
    (/\ ConfigureEnded
     /\ call.args[1] \in ValidRanges
     /\ call.args[2] = GAIN_AUTO)
    => /\ ina.auto_gain_enabled
       /\ IF IsNone(ina.max_expected_amps)
          THEN ina.gain = Some(GAIN_1_40MV)
          ELSE IF LevelsAbove # {}
          THEN /\ ~IsNone(ina.gain)
               /\ Val(ina.gain) \in LevelsAbove
               /\ \A g \in LevelsAbove : Val(ina.gain) <= g
          ELSE outcome = Raised("ValueError", "RNG_ERR_MSG",
                                <<Val(ina.max_expected_amps)>>, FALSE)

\* the gain level a configure() call resolved: the explicit one, or the one
\* recorded when GAIN_AUTO was resolved
ResolvedGain ==
    IF call.args[2] # GAIN_AUTO THEN call.args[2] ELSE Val(ina.gain)

\* C9: with max_expected_amps given, a configure() call with a valid voltage
\* range whose gain was resolved returns only if max_expected_amps <=
\* round(gain_full_scale_volts / shunt_ohms, 3), and otherwise raises the
\* 'Expected current' error carrying max_expected_amps and the maximum
\* possible current.
C9_ExpectedAmpsValidation ==
    (/\ ConfigureEnded
     /\ call.args[1] \in ValidRanges
     /\ ~IsNone(ina.max_expected_amps)
     /\ outcome.msg \notin {"RNG_ERR_MSG", "min() arg is an empty sequence"})
    => LET possible == RDiv(GAIN_VOLTS[ResolvedGain + 1], ina.shunt_ohms)
           exceeds == RGreater(Val(ina.max_expected_amps), RRound3(possible))
       IN  /\ outcome.status = "returned" => ~exceeds
           /\ exceeds =>
                outcome = Raised("ValueError", "AMP_ERR_MSG",
                                 <<Val(ina.max_expected_amps), possible>>,
                                 FALSE)

\* the expected current is above the rounded maximum possible current but
\* below the unrounded one
C9_Witness ==
    /\ ConfigureEnded
    /\ outcome.status = "raised"
    /\ outcome.msg = "AMP_ERR_MSG"
    /\ RLess(outcome.args[1], outcome.args[2])

\* C10: every word written to the calibration register, by configure() or by
\* a gain escalation, lies in 0 .. 0xFFFE.
C10_CalibrationWithinBounds ==
    /\ regs[REG_CALIBRATION] \in 0 .. 65534
    /\ \A i \in 1 .. Len(CalibrationWrites(io)) :
          CalibrationWrites(io)[i][3] \in 0 .. 65534

\* the minimum LSB was taken and the largest calibration word written
C10_Witness ==
    /\ ConfigureEnded
    /\ outcome.status = "returned"
    /\ CalibrationWrites(io) = <<WriteEvent(REG_CALIBRATION, 65534)>>

\* 0.04096 / (shunt_ohms * 0xFFFE)
MinDeviceCurrentLsb == RDiv(R(4096, 100000), RMul(ina.shunt_ohms, RInt(65534)))

\* the current the LSB of a gain level is derived from: max_expected_amps
\* when given and smaller than the maximum possible current of the level
CandidateAmps(gain) ==
    LET possible == RDiv(GAIN_VOLTS[gain + 1], ina.shunt_ohms)
    IN  IF ~IsNone(ina.max_expected_amps)
           /\ RLess(Val(ina.max_expected_amps), possible)
        THEN Val(ina.max_expected_amps)
        ELSE possible

\* C11: whenever current_lsb is set, by configure() or by a gain escalation,
\* it is at least min_device_current_lsb = 0.04096 / (shunt_ohms * 0xFFFE),
\* and a successful configure() whose candidate LSB is below that minimum
\* records the minimum.
C11_CurrentLsbAtLeastMinimum ==
    /\ ina.min_device_current_lsb = MinDeviceCurrentLsb
    /\ ~IsNone(ina.current_lsb)
          => ~RLess(Val(ina.current_lsb), MinDeviceCurrentLsb)
    /\ (/\ ConfigureEnded
        /\ outcome.status = "returned"
        /\ RLess(RDiv(CandidateAmps(ResolvedGain), RInt(32800)),
                 MinDeviceCurrentLsb))
       => ina.current_lsb = Some(MinDeviceCurrentLsb)

\* configure() returned after replacing a candidate below the minimum
C11_Witness ==
    /\ ConfigureEnded
    /\ outcome.status = "returned"
    /\ RLess(RDiv(CandidateAmps(ResolvedGain), RInt(32800)),
             MinDeviceCurrentLsb)
    /\ ina.current_lsb = Some(MinDeviceCurrentLsb)

\* max(candidate_amps / 32800, min_device_current_lsb) of a gain level
ExpectedLsb(gain) ==
    LET candidate == RDiv(CandidateAmps(gain), RInt(32800))
    IN  IF RLess(candidate, MinDeviceCurrentLsb) THEN MinDeviceCurrentLsb
        ELSE candidate

\* C12: a successful configure() writes trunc(0.04096 / (current_lsb *
\* shunt_ohms)) to the calibration register, with current_lsb =
\* max(candidate_amps / 32800, min_device_current_lsb), and then writes the
\* configuration register, and nothing else; for shunt 0.1 ohm, expected
\* 0.4 A, range 16V and gain 40mV the writes are 0x8333 to register 5 and
\* 0x019F to register 0.
C12_ConfigureWritesCalibrationThenConfiguration ==
    (ConfigureEnded /\ outcome.status = "returned")
    => /\ Len(io) = 2
       /\ io[1] = <<"w", 5,
                    RTrunc(RDiv(R(4096, 100000),
                                RMul(ExpectedLsb(ResolvedGain),
                                     ina.shunt_ohms)))>>
       /\ io[2][1] = "w" /\ io[2][2] = 0
       /\ ina.current_lsb = Some(ExpectedLsb(ResolvedGain))
       /\ (/\ ina.shunt_ohms = R(1, 10)
           /\ ina.max_expected_amps = Some(R(4, 10))
           /\ call.args = <<RANGE_16V, GAIN_1_40MV, ADC_12BIT, ADC_12BIT>>)
          => io = <<<<"w", 5, 33587>>, <<"w", 0, 415>>>>

\* the configuration of test_16v_40mv
C12_Witness ==
    /\ ConfigureEnded
    /\ outcome.status = "returned"
    /\ ina.shunt_ohms = R(1, 10)
    /\ ina.max_expected_amps = Some(R(4, 10))
    /\ call.args = <<RANGE_16V, GAIN_1_40MV, ADC_12BIT, ADC_12BIT>>
    /\ io = <<<<"w", 5, 33587>>, <<"w", 0, 415>>>>


\* the configuration word of the last configure() call,
\* <<"w", REG_CONFIG, word>> being the last transfer of a successful call
WrittenConfiguration == io[Len(io)][3]

\* C13: for every voltage range in {0, 1}, gain in 0..3 and ADC codes in
\* 0..15 the configuration word written by configure() is
\* range<<13 | gain<<11 | bus_adc<<7 | shunt_adc<<3 | 0b111: each field is
\* read back from its own bits, so the fields do not overlap, bits 15 and 14
\* are clear, and the mode bits are continuous shunt+bus.
C13_ConfigurationWordLayout ==
    (ConfigureEnded /\ outcome.status = "returned")
    => LET word == WrittenConfiguration
       IN  /\ io[Len(io)][1] = "w" /\ io[Len(io)][2] = 0
           /\ word = call.args[1] * 8192 + ResolvedGain * 2048
                     + call.args[3] * 128 + call.args[4] * 8 + 7
           /\ word < 16384
           /\ (word \div 8192) % 2 = call.args[1]
           /\ (word \div 2048) % 4 = ResolvedGain
           /\ (word \div 128) % 16 = call.args[3]
           /\ (word \div 8) % 16 = call.args[4]
           /\ word % 8 = 7
           /\ regs[REG_CONFIG] = word

\* every field of the word is at its largest value
C13_Witness ==
    /\ ConfigureEnded
    /\ outcome.status = "returned"
    /\ call.args = <<RANGE_32V, GAIN_8_320MV, 15, 15>>
    /\ WrittenConfiguration = 16383

\* C14: round trip of the gain field: for every voltage range, gain level
\* and pair of ADC codes, decoding the gain from the configuration word that
\* configure() wrote, (word & 0x1800) >> 11 as _read_gain does, gives the
\* gain that was encoded.
C14_GainFieldRoundTrip ==
    (ConfigureEnded /\ outcome.status = "returned")
    => /\ GainField(WrittenConfiguration) = ResolvedGain
       /\ _read_gain(Frame(ina, regs, <<>>)).gain = Val(ina.gain)

\* the fields next to the gain field are all ones and the gain is not
C14_Witness ==
    /\ ConfigureEnded
    /\ outcome.status = "returned"
    /\ call.args = <<RANGE_32V, GAIN_2_80MV, 15, 0>>
    /\ GainField(WrittenConfiguration) = GAIN_2_80MV

\* C15: a read step that raises DeviceRangeError changes no attribute of the
\* driver and no device register and writes nothing, so gain, current_lsb,
\* power_lsb and both registers are those left by the last successful
\* escalation of the call, or those from before the call if there was none;
\* after an escalation they agree with each other: the driver's gain is the
\* device's gain field, current_lsb is the LSB of that level, power_lsb is
\* 20 times it and the calibration register holds its calibration word.
C15_RangeErrorKeepsCalibrationState ==
    [][(outcome'.status = "raised" /\ outcome'.error = "DeviceRangeError")
       => /\ call'.name \in ReadCalls
          /\ pc' = "idle"
          /\ ina' = ina
          /\ regs' = regs
          /\ Writes(io') = (IF pc = "idle" THEN <<>> ELSE Writes(io))
          /\ escalations' >= 1
                => /\ ina'.gain = Some(GainField(regs'[REG_CONFIG]))
                   /\ ~IsNone(ina'.current_lsb)
                   /\ ina'.power_lsb =
                         Some(RMul(Val(ina'.current_lsb), RInt(20)))
                   /\ regs'[REG_CALIBRATION] =
                         RTrunc(RDiv(R(4096, 100000),
                                     RMul(Val(ina'.current_lsb),
                                          ina'.shunt_ohms)))]_vars

\* a read raised the gain twice, reached the highest level and gave up
C15_Witness ==
    /\ ReadEnded
    /\ outcome.status = "raised"
    /\ outcome.error = "DeviceRangeError"
    /\ escalations = 2
    /\ ina.gain = Some(GAIN_8_320MV)
    /\ ~IsNone(ina.max_expected_amps)
    /\ Len(Writes(io)) = 4

\* the register a read call takes its measurement from
OwnRegister(name) ==
    IF name = "current" THEN 4 ELSE IF name = "power" THEN 3 ELSE 1

\* C16: every call of current(), power() or shunt_voltage() starts with a
\* read of the bus voltage register, and reads its own measurement register
\* only as its last transfer; when the overflow bit of that first read is
\* clear the call consists of these two reads, writes no register and
\* leaves the instance, with gain, current_lsb and power_lsb, unchanged.
C16_OverflowCheckedBeforeMeasurement ==
    [][call'.name \in ReadCalls
       => /\ Len(io') >= 1
          /\ io'[1][1] = "r" /\ io'[1][2] = 2
          /\ \A i \in 1 .. Len(io') :
                (io'[i][1] = "r" /\ io'[i][2] = OwnRegister(call'.name))
                   => /\ i = Len(io')
                      /\ io'[i - 1][1] = "r" /\ io'[i - 1][2] = 2
                      /\ io'[i - 1][3] % 2 = 0
          /\ io'[1][3] % 2 = 0
                => /\ pc = "idle" /\ pc' = "idle"
                   /\ Len(io') = 2
                   /\ io'[2][1] = "r"
                   /\ io'[2][2] = OwnRegister(call'.name)
                   /\ ina' = ina
                   /\ regs' = regs]_vars

\* a read with auto-gain enabled found the overflow bit clear and returned
C16_Witness ==
    /\ ReadEnded
    /\ ina.auto_gain_enabled
    /\ outcome.status = "returned"
    /\ escalations = 0
    /\ Len(io) = 2
    /\ io[1] = <<"r", 2, 4000>>

\* C17: sleep() reads the configuration register once and then writes it
\* once, with the low 3 mode bits cleared and the other 13 bits as read; it
\* writes no other register and changes nothing in the driver.
C17_SleepClearsModeBitsOnly ==
    [][call'.name = "sleep"
       => /\ Len(io') = 2
          /\ io'[1] = <<"r", 0, regs[REG_CONFIG]>>
          /\ io'[2][1] = "w" /\ io'[2][2] = 0
          /\ io'[2][3] % 8 = 0
          /\ io'[2][3] \div 8 = io'[1][3] \div 8
          /\ regs' = [regs EXCEPT ![REG_CONFIG] = io'[2][3]]
          /\ ina' = ina
          /\ outcome'.status = "returned"]_vars

\* sleep() on a device in continuous mode
C17_Witness ==
    /\ pc = "idle"
    /\ call.name = "sleep"
    /\ io[1][3] % 8 = 7
    /\ io[1][3] \div 8 > 0
    /\ io[2][3] = io[1][3] - 7

\* C18: wake() reads the configuration register and writes the word read
\* with the mode bits set to 0b111 and the other bits unchanged; the
\* 40 microsecond delay is its last step, after the write; and a wake() that
\* follows a sleep() on a word in continuous mode restores that word.
C18_WakeSetsModeThenDelays ==
    [][call'.name = "wake"
       => /\ Len(io') = 3
          /\ io'[1] = <<"r", 0, regs[REG_CONFIG]>>
          /\ io'[2][1] = "w" /\ io'[2][2] = 0
          /\ io'[2][3] % 8 = 7
          /\ io'[2][3] \div 8 = io'[1][3] \div 8
          /\ io'[3] = <<"sleep", 0, 40>>
          /\ regs' = [regs EXCEPT ![REG_CONFIG] = io'[2][3]]
          /\ ina' = ina
          /\ outcome'.status = "returned"
          /\ (call.name = "sleep" /\ io[1][3] % 8 = 7)
                => regs'[REG_CONFIG] = io[1][3]]_vars

\* wake() after configure() and sleep(): 0x0198 is read, 0x019F is restored
C18_Witness ==
    /\ pc = "idle"
    /\ call.name = "wake"
    /\ io = <<<<"r", 0, 408>>, <<"w", 0, 415>>, <<"sleep", 0, 40>>>>
    /\ ~IsNone(ina.gain)

\* C19: reset() performs exactly one transfer, the write of 0x8000 (bit 15
\* alone) to the configuration register: it reads nothing, does not write
\* the calibration register, and leaves the recorded gain, auto-gain flag
\* and LSB values unchanged.
C19_ResetWritesResetBitOnly ==
    [][call'.name = "reset"
       => /\ io' = <<<<"w", 0, 32768>>>>
          /\ ina' = ina
          /\ outcome'.status = "returned"]_vars

\* reset() on a configured driver with auto-gain enabled
C19_Witness ==
    /\ pc = "idle"
    /\ call.name = "reset"
    /\ ina.auto_gain_enabled
    /\ ~IsNone(ina.gain)
    /\ ~IsNone(ina.current_lsb)
    /\ regs[REG_CALIBRATION] > 0
    /\ io = <<<<"w", 0, 32768>>>>

\* C20: for every 16-bit word read from the bus voltage register, voltage()
\* returns (word >> 3) * 0.004, current_overflow() returns whether bit 0 is
\* set and is_conversion_ready() whether bit 1 is set; each of them is the
\* single read of that register and returns, without raising, writing a
\* register or changing the gain or any other attribute, whatever the
\* overflow bit is and whether auto-gain is enabled or not.
C20_BusVoltageWordDecoding ==
    [][call'.name \in {"voltage", "current_overflow", "is_conversion_ready"}
       => /\ Len(io') = 1
          /\ io'[1][1] = "r" /\ io'[1][2] = 2
          /\ outcome'.status = "returned"
          /\ ina' = ina
          /\ regs' = regs
          /\ escalations' = 0
          /\ pc' = "idle"
          /\ call'.name = "voltage"
                => /\ outcome'.value[1].n * 1000
                         = (io'[1][3] \div 8) * 4 * outcome'.value[1].d
                   /\ io'[1][3] = 64000 => outcome'.value = <<[n |-> 32, d |-> 1]>>
          /\ call'.name = "current_overflow"
                => outcome'.value = <<io'[1][3] % 2 = 1>>
          /\ call'.name = "is_conversion_ready"
                => outcome'.value = <<(io'[1][3] \div 2) % 2 = 1>>]_vars

\* voltage() on the word 0xFA01, overflow bit set, with auto-gain enabled
C20_Witness ==
    /\ pc = "idle"
    /\ call.name = "voltage"
    /\ ina.auto_gain_enabled
    /\ io = <<<<"r", 2, 64001>>>>
    /\ outcome.value = <<[n |-> 32, d |-> 1]>>

\* the transfer is a read of the current, power or shunt voltage register
IsMeasurementRead(e) == e[1] = "r" /\ e[2] \in {1, 3, 4}

\* C21: in a read call every gain escalation is, in this order, the write of
\* the calibration register for the new gain, the write of the
\* configuration register with the new gain, and the 1 millisecond delay;
\* the transfer after the delay, if any, is the next read of the bus voltage
\* register, and between the calibration write and the end of the delay the
\* only other transfer is a read of the configuration register.
C21_EscalationWriteDelayReadOrder ==
    call.name \in ReadCalls
    => /\ Len(CalibrationWrites(io)) = escalations
       /\ Len(Writes(io)) = 2 * escalations
       /\ \A i \in 1 .. Len(io) :
             /\ (io[i][1] = "w" /\ io[i][2] = 5)
                   => /\ i + 3 <= Len(io)
                      /\ io[i + 1][1] = "r" /\ io[i + 1][2] = 0
                      /\ io[i + 2][1] = "w" /\ io[i + 2][2] = 0
                      /\ (io[i + 2][3] \div 2048) % 4
                            = ((io[i + 1][3] \div 2048) % 4) + 1
                      /\ io[i][3] =
                            RTrunc(RDiv(R(4096, 100000),
                                        RMul(UnconstrainedLsb(
                                                 (io[i + 2][3] \div 2048) % 4),
                                             ina.shunt_ohms)))
                      /\ io[i + 3] = <<"sleep", 0, 1000>>
                      /\ i + 4 <= Len(io)
                            => io[i + 4][1] = "r" /\ io[i + 4][2] = 2
                      /\ \A j \in i .. i + 3 : ~IsMeasurementRead(io[j])
             /\ (io[i][1] = "w" /\ io[i][2] = 0)
                   => i >= 3 /\ io[i - 2][1] = "w" /\ io[i - 2][2] = 5
             /\ io[i][1] = "sleep"
                   => i >= 4 /\ io[i - 3][1] = "w" /\ io[i - 3][2] = 5

\* a read that raised the gain twice and then returned its measurement
C21_Witness ==
    /\ ReadEnded
    /\ escalations = 2
    /\ outcome.status = "returned"
    /\ Len(io) = 14
    /\ IsMeasurementRead(io[14])

\* current_lsb * 32767, the largest current the 15-bit register represents,
\* is strictly below the full-scale current of the recorded gain level
OverflowDetectable ==
    RLess(RMul(Val(ina.current_lsb), RInt(32767)),
          RDiv(GAIN_VOLTS[Val(ina.gain) + 1], ina.shunt_ohms))

\* C22: after every successful configure() and after every gain escalation,
\* current_lsb * 32767 is strictly below gain_full_scale_volts / shunt_ohms
\* of the active gain level, so overflow can always be observed.
C22_OverflowAlwaysDetectable ==
    /\ (ConfigureEnded /\ outcome.status = "returned") => OverflowDetectable
    /\ (call.name \in ReadCalls /\ escalations >= 1) => OverflowDetectable

\* the LSB is the largest one of the level: full scale / 32800
C22_Witness ==
    /\ ConfigureEnded
    /\ outcome.status = "returned"
    /\ RMul(Val(ina.current_lsb), RInt(32800))
          = RDiv(GAIN_VOLTS[Val(ina.gain) + 1], ina.shunt_ohms)
    /\ ~IsNone(ina.max_expected_amps)

\* C23: a gain escalation writes back the configuration word it read with
\* only the gain bits 12-11 changed: bits 15-13 (with the voltage range bit)
\* and bits 10-0 (both ADC fields and the three mode bits) are unchanged, so
\* a device in power-down mode stays in it across an escalation.
C23_EscalationChangesGainBitsOnly ==
    call.name \in ReadCalls
    => \A i \in 1 .. Len(io) :
          (io[i][1] = "w" /\ io[i][2] = 0)
             => /\ i >= 2
                /\ io[i - 1][1] = "r" /\ io[i - 1][2] = 0
                /\ io[i][3] % 2048 = io[i - 1][3] % 2048
                /\ io[i][3] \div 8192 = io[i - 1][3] \div 8192
                /\ (io[i][3] \div 2048) % 4 # (io[i - 1][3] \div 2048) % 4
                /\ i = Len(io) - 1 => regs[REG_CONFIG] = io[i][3]

\* a read escalated on a device that configure() set up and sleep() put in
\* power-down mode: the ADC fields are kept and the mode bits are still 0
C23_Witness ==
    /\ ReadEnded
    /\ escalations >= 1
    /\ regs[REG_CONFIG] % 8 = 0
    /\ (regs[REG_CONFIG] \div 8) % 16 = ADC_12BIT
    /\ (regs[REG_CONFIG] \div 128) % 16 = ADC_12BIT
    /\ regs[REG_CONFIG] \div 8192 = 1

\* C24: a configure() call with a valid voltage range that fails with a
\* configuration error (a ValueError), made on a configured driver, leaves
\* the recorded gain, voltage range, auto-gain flag, current_lsb and
\* power_lsb as they were before the call.
C24_FailedConfigureKeepsDriverState ==
    [][(/\ Configured
        /\ call'.name = "configure"
        /\ call'.args[1] \in ValidRanges
        /\ outcome'.status = "raised"
        /\ outcome'.error = "ValueError")
       => /\ ina'.gain = ina.gain
          /\ ina'.voltage_range = ina.voltage_range
          /\ ina'.auto_gain_enabled = ina.auto_gain_enabled
          /\ ina'.current_lsb = ina.current_lsb
          /\ ina'.power_lsb = ina.power_lsb]_vars

\* C25: after any sequence of successful configure() calls, reads that
\* return or raise DeviceRangeError, sleep() and wake(), with no reset(),
\* once the driver is configured it agrees with the device: the recorded
\* gain is the gain field of the configuration register, the calibration
\* register holds trunc(0.04096 / (current_lsb * shunt_ohms)), and
\* power_lsb is 20 times current_lsb.
C25_DriverAndDeviceAgree ==
    ~IsNone(ina.gain)
    => /\ Val(ina.gain) = (regs[REG_CONFIG] \div 2048) % 4
       /\ ~IsNone(ina.current_lsb)
       /\ regs[REG_CALIBRATION] =
             RTrunc(RDiv(R(4096, 100000),
                         RMul(Val(ina.current_lsb), ina.shunt_ohms)))
       /\ ina.power_lsb = Some(RMul(RInt(20), Val(ina.current_lsb)))

\* the device is asleep after a read that raised the gain
C25_Witness ==
    /\ pc = "idle"
    /\ call.name = "sleep"
    /\ ~IsNone(ina.gain)
    /\ Val(ina.gain) = GAIN_4_160MV
    /\ ~IsNone(ina.max_expected_amps)
    /\ Val(ina.current_lsb) = UnconstrainedLsb(GAIN_4_160MV)
    /\ regs[REG_CONFIG] % 8 = 0

\* a read call that is back at its overflow check goes on
LiveSpec ==
    Spec /\ WF_vars(\E raw_bus \in BusRawChoices, raw \in RawChoices :
                       Recheck(raw_bus, raw))

====
